---------------------------- MODULE Spec2Model ----------------------------
(***************************************************************************)
(* Model of the two CoAP servers of the repository:                        *)
(*   - coap_server/server.c               (volatile: state in g_state)     *)
(*   - coap_server/server_persist_clean.c (persistent: two text files)     *)
(* Both servers are fed the same datagrams.  One step of the model is one  *)
(* iteration of each server's receive loop on the same datagram: recvfrom, *)
(* coap_parse, the dispatch, the build of the response and sendto.         *)
(*                                                                         *)
(* Bytes are numbers 0..255, buffers and C strings are sequences of bytes  *)
(* (a C string is held without its terminator).  A C index i is the        *)
(* sequence index i+1; cursors (p, end) are 0-based offsets as in the code.*)
(*                                                                         *)
(* File I/O: fopen and fprintf may fail (the environment decides); a       *)
(* failed fprintf after fopen(...,"w") leaves the truncated, empty file,   *)
(* a failed append leaves the log as it was.  fclose is not checked by the *)
(* code and is taken to succeed.  No line the server writes reaches the    *)
(* 2047 bytes of fgets' buffer (20 + 9 + 1023 + 1), so fgets returns whole *)
(* lines.                                                                  *)
(***************************************************************************)
EXTENDS Integers, Sequences, FiniteSets, TLC

VARIABLES
  g_state,      \* server.c: char g_state[1024], as a C string
  currentFile,  \* persistent: contents of CURRENTFILE (<<>>: absent or empty)
  historyFile,  \* persistent: contents of DATAFILE    (<<>>: absent or empty)
  inbuf,        \* the datagram received in the last loop iteration
  vSent,        \* server.c: datagrams sent in the last iteration (0 or 1)
  pSent,        \* persistent: datagrams sent in the last iteration (0 or 1)
  vDispatched,  \* server.c: the last iteration reached the dispatch
  pDispatched,  \* persistent: the last iteration reached the dispatch
  lastIo,       \* persistent: what write_current_and_history did last iteration
  sincePut,     \* history: body of the last PUT 'sensor', until the next write request
  putSeen,      \* history: a PUT 'sensor' has been dispatched since the start
  goodWrites,   \* history: the values of the write_current_and_history calls that
                \* returned 0, in call order
  vAborted,     \* the process of server.c was ended by a write beyond uri_path
  stop_flag,    \* stop_flag (server.c) / g_stop (persistent): set by the handler
  pc,           \* where the servers are: "recv" (in the loop, at recvfrom) or
                \* "done" (the loop was left, the process ends)
  call          \* history: the arguments with which the last datagram or response
                \* was built (buildPost, add_option, build_response)

vars == <<g_state, currentFile, historyFile, inbuf, vSent, pSent,
          vDispatched, pDispatched, lastIo, sincePut, putSeen,
          goodWrites, vAborted, stop_flag, pc, call>>

-----------------------------------------------------------------------------
(* Program constants *)

COAP_VER == 1
COAP_CON == 0
COAP_NON == 1
COAP_ACK == 2
COAP_RST == 3
COAP_GET == 1
COAP_POST == 2
COAP_PUT == 3
COAP_204_CHANGED == 68
COAP_205_CONTENT == 69
COAP_404_NOTFOUND == 132
COAP_405_METHODNA == 133
COAP_500_INTERR == 160
OPT_URI_PATH == 11
OPT_CONTENT_FORMAT == 12
CF_TEXT_PLAIN == 0
PAYLOAD_MARKER == 255
URI_PATH_SIZE == 128
BODY_SIZE == 1024
RESP_SIZE == 1200
BUF_SIZE == 1500
LINE_SIZE == 2048
G_STATE_SIZE == 1024

-----------------------------------------------------------------------------
(* Text constants of the code, as bytes *)

LF == 10
CR == 13
NUL == 0

STR_NO_DATA == <<78, 79, 95, 68, 65, 84, 65>>
STR_UPDATED == <<85, 80, 68, 65, 84, 69, 68>>
STR_NOT_FOUND == <<78, 79, 84, 95, 70, 79, 85, 78, 68>>
STR_METHOD_NOT_ALLOWED ==
  <<77, 69, 84, 72, 79, 68, 95, 78, 79, 84, 95, 65, 76, 76, 79, 87, 69, 68>>
STR_WRITE_FAIL == <<87, 82, 73, 84, 69, 95, 70, 65, 73, 76>>
STR_ECHO_PREFIX == <<101, 99, 104, 111, 58, 32>>
STR_echo == <<101, 99, 104, 111>>
STR_sensor == <<115, 101, 110, 115, 111, 114>>
STR_PAYLOAD_TAG == <<112, 97, 121, 108, 111, 97, 100, 61>>
STR_SLASH == <<47>>

-----------------------------------------------------------------------------
(* C library helpers *)

Min(a, b) == IF a < b THEN a ELSE b

Max(a, b) == IF a > b THEN a ELSE b

\* strlen of the bytes held in a buffer: the offset of the first NUL.
strlen(s) ==
  LET nuls == {i \in 1..Len(s) : s[i] = NUL}
  IN  IF nuls = {} THEN Len(s)
      ELSE (CHOOSE i \in nuls : \A j \in nuls : i <= j) - 1

\* The C string that starts a buffer.
CStr(s) == SubSeq(s, 1, strlen(s))

\* snprintf(dst, size, "%s", s): at most size-1 bytes of the C string s.
snprintf_s(size, s) == SubSeq(CStr(s), 1, Min(strlen(s), size - 1))

-----------------------------------------------------------------------------
(* Message codec: parse *)

\* What a read at offset i - 1 of buf gives: beyond the end, some byte of the
\* memory after the buffer.
ByteAt(buf, i) == IF i <= Len(buf) THEN buf[i] ELSE 0

\* Mutant of read_nibble_ext: the extension bytes are read without the test
\* against end.
read_nibble_ext_unchecked(v, buf, p) ==
  IF v < 13 THEN [val |-> v, p |-> p, hi |-> 0]
  ELSE IF v = 13 THEN
    [val |-> 13 + ByteAt(buf, p + 1), p |-> p + 1, hi |-> p + 1]
  ELSE IF v = 14 THEN
    [val |-> 269 + (ByteAt(buf, p + 1) * 256 + ByteAt(buf, p + 2)),
     p |-> p + 2, hi |-> p + 2]
  ELSE [val |-> -1, p |-> p, hi |-> 0]

\* Mutant of read_nibble_ext: the two extension bytes are read low byte first.
read_nibble_ext_little_endian(v, buf, p) ==
  IF v < 13 THEN [val |-> v, p |-> p, hi |-> 0]
  ELSE IF v = 13 THEN
    IF p >= Len(buf) THEN [val |-> -1, p |-> p, hi |-> 0]
    ELSE [val |-> 13 + buf[p + 1], p |-> p + 1, hi |-> p + 1]
  ELSE IF v = 14 THEN
    IF p + 1 >= Len(buf) THEN [val |-> -1, p |-> p, hi |-> 0]
    ELSE [val |-> 269 + (buf[p + 1] + buf[p + 2] * 256), p |-> p + 2, hi |-> p + 2]
  ELSE [val |-> -1, p |-> p, hi |-> 0]

\* read_nibble_ext (server.c) and read_ext (persistent) are the same code.
\* p is the cursor, end = Len(buf).  val = -1 is the error return.  hi: one more
\* than the highest offset of buf the call read (0: it read nothing).
read_nibble_ext(v, buf, p) ==
  IF v < 13 THEN [val |-> v, p |-> p, hi |-> 0]
  ELSE IF v = 13 THEN
    IF p >= Len(buf) THEN [val |-> -1, p |-> p, hi |-> 0]
    ELSE [val |-> 13 + buf[p + 1], p |-> p + 1, hi |-> p + 1]
  ELSE IF v = 14 THEN
    IF p + 1 >= Len(buf) THEN [val |-> -1, p |-> p, hi |-> 0]
    ELSE [val |-> 269 + (buf[p + 1] * 256 + buf[p + 2]), p |-> p + 2, hi |-> p + 2]
  ELSE [val |-> -1, p |-> p, hi |-> 0]

read_ext(v, buf, p) == read_nibble_ext(v, buf, p)

\* server.c, lines 100-107: the Uri-Path segment is appended with strncat, which
\* copies the segment up to its first NUL and is not bounded by the room left in
\* uri_path[128].  overrun: the copy wrote beyond the buffer.  read: how many
\* bytes of the segment were read.
strncat_segment(path, seg) ==
  IF Len(seg) = 0 THEN [path |-> path, overrun |-> FALSE, read |-> 0]
  ELSE LET withSlash == IF Len(path) > 0 /\ Len(path) < URI_PATH_SIZE - 1
                        THEN path \o STR_SLASH ELSE path
           joined == withSlash \o CStr(seg)
       IN  [path |-> joined, overrun |-> Len(joined) > URI_PATH_SIZE - 1,
            read |-> Min(strlen(seg) + 1, Len(seg))]

\* server_persist_clean.c: the copy is cut to the room left in dst[dstsz].
append_uri_segment(dst, dstsz, seg) ==
  IF Len(seg) = 0 \/ dstsz = 0 THEN [path |-> dst, overrun |-> FALSE, read |-> 0]
  ELSE LET cur0 == Len(dst)
           slash == Len(dst) > 0 /\ cur0 < dstsz - 1
           cur == IF slash THEN cur0 + 1 ELSE cur0
           copy == IF cur + Len(seg) >= dstsz THEN dstsz - 1 - cur ELSE Len(seg)
           buf == (IF slash THEN dst \o STR_SLASH ELSE dst) \o SubSeq(seg, 1, copy)
       IN  [path |-> CStr(buf), overrun |-> cur + copy > dstsz - 1, read |-> copy]

AppendSegment(persist, path, seg) ==
  IF persist THEN append_uri_segment(path, URI_PATH_SIZE, seg)
  ELSE strncat_segment(path, seg)

\* The return -1 of coap_parse, after reads up to offset hi - 1.
ParseFailed(hi) == [ok |-> FALSE, hi |-> hi, overrun |-> FALSE]

\* The option loop of coap_parse.  st holds the cursor p, the running option
\* number last, the path so far, whether a copy wrote beyond uri_path, and hi:
\* one more than the highest offset of buf read so far.
RECURSIVE ParseOptions(_, _, _)
ParseOptions(persist, buf, st) ==
  IF st.p < Len(buf) /\ buf[st.p + 1] # PAYLOAD_MARKER THEN
    LET byte == buf[st.p + 1]
        d == read_nibble_ext(byte \div 16, buf, st.p + 1)
        l == read_nibble_ext(byte % 16, buf, d.p)
        optnum == st.last + d.val
        q == l.p
        hi1 == Max(Max(st.hi, st.p + 1), Max(d.hi, l.hi))
    IN  IF d.val < 0 \/ l.val < 0 \/ q + l.val > Len(buf)
        THEN [ParseFailed(hi1) EXCEPT !.overrun = st.overrun]
        ELSE LET a == IF optnum = OPT_URI_PATH
                      THEN AppendSegment(persist, st.path, SubSeq(buf, q + 1, q + l.val))
                      ELSE [path |-> st.path, overrun |-> FALSE, read |-> 0]
             IN  ParseOptions(persist, buf,
                              [p |-> q + l.val,
                               last |-> optnum,
                               path |-> a.path,
                               overrun |-> st.overrun \/ a.overrun,
                               hi |-> IF a.read > 0 THEN Max(hi1, q + a.read) ELSE hi1])
  ELSE [ok |-> TRUE, p |-> st.p, path |-> st.path, overrun |-> st.overrun,
        hi |-> IF st.p < Len(buf) THEN Max(st.hi, st.p + 1) ELSE st.hi]

\* Mutant of parse_header: a token length above 8 is not refused.
parse_header_any_tkl(buf) ==
  IF Len(buf) < 4 THEN ParseFailed(0)
  ELSE IF (buf[1] \div 64) % 4 # COAP_VER THEN ParseFailed(1)
  ELSE LET tkl == buf[1] % 16
       IN  IF 4 + tkl > Len(buf) THEN ParseFailed(4)
           ELSE [ok |-> TRUE, type |-> (buf[1] \div 16) % 4, tkl |-> tkl,
                 code |-> buf[2], mid |-> buf[3] * 256 + buf[4],
                 token |-> SubSeq(buf, 5, 4 + tkl), hi |-> 4 + tkl]

\* coap_parse, lines 75-83: the length, the version, the header fields, the token
\* length and the copy of the token.
parse_header(buf) ==
  IF Len(buf) < 4 THEN ParseFailed(0)
  ELSE IF (buf[1] \div 64) % 4 # COAP_VER THEN ParseFailed(1)
  ELSE LET tkl == buf[1] % 16
       IN  IF 4 + tkl > Len(buf) \/ tkl > 8 THEN ParseFailed(4)
           ELSE [ok |-> TRUE,
                 type |-> (buf[1] \div 16) % 4,
                 tkl |-> tkl,
                 code |-> buf[2],
                 mid |-> buf[3] * 256 + buf[4],
                 token |-> SubSeq(buf, 5, 4 + tkl),
                 hi |-> 4 + tkl]

\* coap_parse of both servers; they differ in how a Uri-Path segment is appended.
Parse(persist, buf) ==
  LET h == parse_header(buf)
  IN  IF ~h.ok THEN h
      ELSE LET o == ParseOptions(persist, buf,
                                 [p |-> 4 + h.tkl, last |-> 0, path |-> <<>>,
                                  overrun |-> FALSE, hi |-> h.hi])
           IN  IF ~o.ok THEN o
               ELSE [ok |-> TRUE,
                     type |-> h.type,
                     tkl |-> h.tkl,
                     code |-> h.code,
                     mid |-> h.mid,
                     token |-> h.token,
                     uri_path |-> o.path,
                     overrun |-> o.overrun,
                     hi |-> o.hi,
                     payload |-> IF o.p < Len(buf) /\ buf[o.p + 1] = PAYLOAD_MARKER
                                 THEN SubSeq(buf, o.p + 2, Len(buf))
                                 ELSE <<>>]

coap_parse(buf) == Parse(FALSE, buf)

coap_parse_persist(buf) == Parse(TRUE, buf)

-----------------------------------------------------------------------------
(* Message codec: build *)

\* add_option: the bytes of one option, or n = -1 when cap is too small.
add_option(cap, last, number, val) ==
  IF cap < 1 THEN [n |-> -1, bytes |-> <<>>]
  ELSE LET delta == number - last
           vlen == Len(val)
           dl == IF delta < 13 THEN delta ELSE IF delta < 269 THEN 13 ELSE 14
           dext == IF delta < 13 THEN <<>>
                   ELSE IF delta < 269 THEN <<(delta - 13) % 256>>
                   ELSE <<((delta - 269) \div 256) % 256, (delta - 269) % 256>>
           ll == IF vlen < 13 THEN vlen ELSE IF vlen < 269 THEN 13 ELSE 14
           lext == IF vlen < 13 THEN <<>>
                   ELSE IF vlen < 269 THEN <<(vlen - 13) % 256>>
                   ELSE <<((vlen - 269) \div 256) % 256, (vlen - 269) % 256>>
           need == 1 + Len(dext) + Len(lext) + vlen
       IN  IF cap < need THEN [n |-> -1, bytes |-> <<>>]
           ELSE [n |-> need,
                 bytes |-> <<((dl * 16) % 256) + ll>> \o dext \o lext \o val]

\* Mutant of the response type: every response is an Acknowledgement.
ResponseType_always_ack(req_type) == COAP_ACK

\* build_response, line 162: the type of the response.
ResponseType(req_type) == IF req_type = COAP_CON THEN COAP_ACK ELSE COAP_NON

\* Mutant of build_response: when the payload does not fit, the header, the
\* token and the option are returned without it.
build_response_partial(cap, req_type, tkl, tok, mid, code, payload) ==
  IF cap < 4 + tkl THEN <<>>
  ELSE LET type == ResponseType(req_type)
           head == <<(COAP_VER * 64 + type * 16 + (tkl % 16)) % 256,
                     code, mid \div 256, mid % 256>> \o SubSeq(tok, 1, tkl)
           pos == 4 + tkl
           opt == add_option(cap - pos, 0, OPT_CONTENT_FORMAT, <<CF_TEXT_PLAIN>>)
       IN  IF opt.n < 0 THEN <<>>
           ELSE IF Len(payload) > 0 /\ pos + opt.n + 1 + Len(payload) <= cap
                THEN head \o opt.bytes \o <<PAYLOAD_MARKER>> \o payload
                ELSE head \o opt.bytes

\* build_response (server.c) and build_resp (persistent) are the same code.
\* The result is the datagram; <<>> is the return value 0.
build_response(cap, req_type, tkl, tok, mid, code, payload) ==
  IF cap < 4 + tkl THEN <<>>
  ELSE LET type == ResponseType(req_type)
           head == <<(COAP_VER * 64 + type * 16 + (tkl % 16)) % 256,
                     code, mid \div 256, mid % 256>> \o SubSeq(tok, 1, tkl)
           pos == 4 + tkl
           opt == add_option(cap - pos, 0, OPT_CONTENT_FORMAT, <<CF_TEXT_PLAIN>>)
       IN  IF opt.n < 0 THEN <<>>
           ELSE IF Len(payload) > 0
                THEN IF pos + opt.n + 1 + Len(payload) > cap THEN <<>>
                     ELSE head \o opt.bytes \o <<PAYLOAD_MARKER>> \o payload
                ELSE head \o opt.bytes

build_resp(cap, req_type, tkl, tok, mid, code, payload) ==
  build_response(cap, req_type, tkl, tok, mid, code, payload)

\* main, lines 268-270: the response is sent when build_response returned a
\* length above 0.  The result is what goes out: one datagram or none.
send_response(out) == IF Len(out) > 0 THEN <<out>> ELSE <<>>

-----------------------------------------------------------------------------
(* The client's request builder (sensorDistancia/coap_min.h) *)

\* "Opciones (delta/len < 13)": the builder writes deltas and lengths as nibbles.
CLIENT_LEN_LIMIT == 13
CF_JSON == 50

\* Mutant of addOpt: the option number is written as the delta.
addOpt_absolute_number(last, number, val, len) ==
  [bytes |-> <<(((number % 65536) * 16) % 256) + (len % 16)>>
               \o SubSeq(val, 1, len),
   last |-> number]

\* The lambda addOpt of buildPost: one header byte, delta in the high nibble and
\* the low 4 bits of len in the low one, then len bytes of the value.
addOpt(last, number, val, len) ==
  [bytes |-> <<((((number - last) % 65536) * 16) % 256) + (len % 16)>>
               \o SubSeq(val, 1, len),
   last |-> number]

\* buildPost(out, path1, path2, json, msgId): the datagram written to out.  The
\* length handed to addOpt is a uint8_t.
buildPost(path1, path2, json, msgId) ==
  LET head == <<COAP_VER * 64 + COAP_CON * 16 + 2, COAP_POST,
                (msgId \div 256) % 256, msgId % 256,
                (msgId \div 256) % 256, msgId % 256>>
      o1 == IF Len(path1) > 0 THEN addOpt(0, OPT_URI_PATH, path1, strlen(path1) % 256)
            ELSE [bytes |-> <<>>, last |-> 0]
      o2 == IF Len(path2) > 0
            THEN addOpt(o1.last, OPT_URI_PATH, path2, strlen(path2) % 256)
            ELSE [bytes |-> <<>>, last |-> o1.last]
      o3 == addOpt(o2.last, OPT_CONTENT_FORMAT, <<CF_JSON>>, 1)
  IN  head \o o1.bytes \o o2.bytes \o o3.bytes \o <<PAYLOAD_MARKER>> \o CStr(json)

-----------------------------------------------------------------------------
(* Resource store of the persistent server *)

\* Mutant of rstrip: the line keeps its line end.
rstrip_keeps_line_end(s) == s

\* rstrip, its loop: while (n && (s[n-1]=='\n' || s[n-1]=='\r')) s[--n] = '\0'.
RECURSIVE rstrip_len(_, _)
rstrip_len(s, n) ==
  IF n > 0 /\ (s[n] = LF \/ s[n] = CR) THEN rstrip_len(s, n - 1) ELSE n

\* rstrip: drop the trailing '\n' and '\r' bytes.
rstrip(s) == SubSeq(s, 1, rstrip_len(s, Len(s)))

\* The lines fgets returns for a file: each ends at its '\n' (kept) or at the end
\* of the file.
FileLines(f) ==
  LET starts == {i \in 1..Len(f) : i = 1 \/ f[i - 1] = LF}
      lineEnd(s) == IF \E j \in s..Len(f) : f[j] = LF
                    THEN CHOOSE j \in s..Len(f) : f[j] = LF /\ \A k \in s..(j - 1) : f[k] # LF
                    ELSE Len(f)
  IN  [s \in starts |-> SubSeq(f, s, lineEnd(s))]

\* read_last_line: the last line that is not empty once stripped, cut to the
\* caller's buffer; found = FALSE is the return value 0 (no file, or no such line).
read_last_line(f, outsz) ==
  LET lines == FileLines(f)
      full == {s \in DOMAIN lines : Len(rstrip(CStr(lines[s]))) > 0}
  IN  IF full = {} THEN [found |-> FALSE, line |-> <<>>]
      ELSE LET s == CHOOSE x \in full : \A y \in full : y <= x
               last == snprintf_s(LINE_SIZE, rstrip(CStr(lines[s])))
           IN  [found |-> TRUE, line |-> snprintf_s(outsz, last)]

\* strstr(line, tag): the offset of the first occurrence, or -1.
strstr(line, tag) ==
  LET hits == {i \in 0..(Len(line) - Len(tag)) :
                 SubSeq(line, i + 1, i + Len(tag)) = tag}
  IN  IF hits = {} THEN -1 ELSE CHOOSE i \in hits : \A j \in hits : i <= j

\* Mutant of extract_state: the tag is not looked for, the line is returned whole.
extract_state_whole_line(line, outsz) == snprintf_s(outsz, line)

\* extract_state: what follows "payload=", or the whole line without the tag.
extract_state(line, outsz) ==
  LET p == strstr(line, STR_PAYLOAD_TAG)
  IN  IF p >= 0
      THEN snprintf_s(outsz, SubSeq(line, p + Len(STR_PAYLOAD_TAG) + 1, Len(line)))
      ELSE snprintf_s(outsz, line)

\* strftime(iso, "%Y-%m-%dT%H:%M:%SZ", gmtime(now)) for now in 0..9 seconds.
strftime_iso(now) ==
  <<49, 57, 55, 48, 45, 48, 49, 45, 48, 49, 84, 48, 48, 58, 48, 48, 58, 48>>
    \o <<48 + now, 90>>

\* The history line of one update.
HistoryLine(iso, value) == iso \o <<32>> \o STR_PAYLOAD_TAG \o CStr(value) \o <<LF>>

\* Mutant of fopen_append: the log is opened with "w" and loses what it held.
fopen_truncates(file, line) == line

\* fopen(history, "a") and fprintf: the line is added at the end of the file.
fopen_append(file, line) == file \o line

NotCalled == [called |-> FALSE, ret |-> 0, cur |-> "none", hist |-> "none"]

\* What the environment does to the two file writes if they are attempted.
IoPlans ==
  {[cur |-> "ok", hist |-> "ok"],
   [cur |-> "ok", hist |-> "open_fail"],
   [cur |-> "ok", hist |-> "write_fail"],
   [cur |-> "open_fail", hist |-> "ok"],
   [cur |-> "write_fail", hist |-> "ok"]}

\* write_current_and_history: the files after the call, the return value, and in
\* io what was attempted (hist = "none": the history append was never attempted).
write_current_and_history(current, history, value, plan, now) ==
  IF plan.cur = "open_fail"
  THEN [ret |-> -1, current |-> current, history |-> history,
        io |-> [called |-> TRUE, ret |-> -1, cur |-> "open_fail", hist |-> "none"]]
  ELSE IF plan.cur = "write_fail"
  THEN [ret |-> -1, current |-> <<>>, history |-> history,
        io |-> [called |-> TRUE, ret |-> -1, cur |-> "write_fail", hist |-> "none"]]
  ELSE LET written == CStr(value) \o <<LF>>
       IN  IF plan.hist # "ok"
           THEN [ret |-> -1, current |-> written, history |-> history,
                 io |-> [called |-> TRUE, ret |-> -1, cur |-> "ok", hist |-> plan.hist]]
           ELSE [ret |-> 0, current |-> written,
                 history |-> fopen_append(history, HistoryLine(strftime_iso(now), value)),
                 io |-> [called |-> TRUE, ret |-> 0, cur |-> "ok", hist |-> "ok"]]

-----------------------------------------------------------------------------
(* Receive loops *)

\* recvfrom(fd, inbuf, sizeof(inbuf)): at most BUF_SIZE bytes of the datagram.
recvfrom(d) == SubSeq(d, 1, Min(Len(d), BUF_SIZE))

-----------------------------------------------------------------------------
(* The datagrams the environment sends *)

MaxWrites == 2

\* time(NULL) when the n-th successful update is made: the clock advances by one
\* second from one update to the next.
Times(n) == {n}

Seg_x == <<120>>
Body_5 == <<53>>
Body_7 == <<55>>
Body_two_lines == <<53, LF, 55>>
Body_crlf == <<53, CR, LF>>
Body_nul == <<53, NUL, 55>>
Token_1 == <<171>>
Token_2 == <<18, 52>>
Token_8 == <<1, 2, 3, 4, 5, 6, 7, 8>>

\* The Uri-Path options of a request: delta 11 for the first segment, 0 after it.
RECURSIVE UriPathOptions(_, _)
UriPathOptions(segs, first) ==
  IF segs = <<>> THEN <<>>
  ELSE <<(IF first THEN OPT_URI_PATH * 16 ELSE 0) + Len(Head(segs))>>
         \o Head(segs) \o UriPathOptions(Tail(segs), FALSE)

\* A well-formed request datagram; marked: the payload marker is present.
Request(type, tok, code, mid, segs, marked, payload) ==
  <<COAP_VER * 64 + type * 16 + Len(tok), code, mid \div 256, mid % 256>>
    \o tok \o UriPathOptions(segs, TRUE)
    \o (IF marked THEN <<PAYLOAD_MARKER>> \o payload ELSE <<>>)

\* The requests of the routing table: each method on 'sensor' and 'echo', some
\* on other paths, without payload; and the two write requests with each body.
RoutingInputs ==
  {Request(COAP_CON, Token_1, code, 4660, <<path>>, FALSE, <<>>) :
     code \in 1..4, path \in {STR_sensor, STR_echo}}
  \cup {Request(COAP_CON, Token_1, COAP_GET, 4660, <<Seg_x>>, FALSE, <<>>),
        Request(COAP_CON, Token_1, COAP_PUT, 4660, <<Seg_x>>, TRUE, Body_5),
        Request(COAP_CON, Token_1, COAP_GET, 4660, <<>>, FALSE, <<>>)}

WriteInputs ==
  {Request(COAP_CON, Token_1, COAP_PUT, 4660, <<STR_sensor>>, TRUE, body) :
     body \in {Body_5, Body_7, Body_two_lines, Body_crlf, Body_nul}}
  \cup {Request(COAP_CON, Token_1, COAP_POST, 4660, <<STR_echo>>, TRUE, Body_7)}

\* Each message type and token length on a write, a read and an unknown path.
HeaderInputs ==
  {Request(type, tok, COAP_PUT, 65535, <<STR_sensor>>, TRUE, Body_5) :
     type \in COAP_CON..COAP_RST, tok \in {<<>>, Token_2}}
  \cup {Request(type, tok, COAP_GET, 258, <<STR_sensor>>, FALSE, <<>>) :
          type \in COAP_CON..COAP_RST, tok \in {<<>>, Token_1}}
  \cup {Request(type, Token_8, 4, 0, <<Seg_x>>, FALSE, <<>>) :
          type \in COAP_CON..COAP_RST}

\* Datagrams coap_parse rejects, and the empty datagram.
MalformedInputs ==
  {<<>>,
   <<64, 3, 0>>,                                     \* shorter than 4 bytes
   <<0, 3, 0, 1, 182>> \o STR_sensor,                \* version 0
   <<73, 3, 0, 1, 1, 2, 3, 4, 5, 6, 7, 8, 9>>,       \* token length 9
   <<66, 3, 0, 1, 1>>,                               \* token longer than the datagram
   <<64, 3, 0, 1, 241, 1>>,                          \* delta nibble 15
   <<64, 3, 0, 1, 191, 1>>,                          \* length nibble 15
   <<64, 3, 0, 1, 208>>,                             \* extension byte missing
   <<64, 3, 0, 1, 182, 115, 101, 110>>,              \* option value cut short
   <<64, 3, 0, 1, 182>> \o STR_sensor \o <<241, 1>>} \* bad option after the path

\* What the clients send under Spec (the routing and the store) and under
\* SpecCodec (the headers and the rejected datagrams).
Datagrams == RoutingInputs \cup WriteInputs

CodecDatagrams == HeaderInputs \cup MalformedInputs

\* The longest payload the clients send, and how many updates of such bodies
\* succeed.
MaxPayload == 1100
MaxBodyWrites == 1

\* A text of n bytes, the digits 1..9 in turn.
Text(n) == [i \in 1..n |-> 49 + (i % 9)]

\* Bodies around the size of body[1024]: POST 'echo' with no payload, an empty
\* payload, short texts and texts of 1023, 1024 and MaxPayload bytes; PUT 'sensor'
\* with texts of 1022 and 1024 bytes; GET 'sensor'.
BodyDatagrams ==
  {Request(COAP_CON, Token_1, COAP_POST, 4660, <<STR_echo>>, TRUE, body) :
     body \in {<<>>, Body_7, Body_nul, Text(BODY_SIZE - 1), Text(BODY_SIZE),
               Text(MaxPayload)}}
  \cup {Request(COAP_CON, Token_1, COAP_PUT, 4660, <<STR_sensor>>, TRUE, body) :
          body \in {Text(BODY_SIZE - 2), Text(BODY_SIZE)}}
  \cup {Request(COAP_CON, Token_1, COAP_POST, 4660, <<STR_echo>>, FALSE, <<>>),
        Request(COAP_CON, Token_1, COAP_GET, 4660, <<STR_sensor>>, FALSE, <<>>)}

-----------------------------------------------------------------------------
(* The request a datagram carries, as the routing table of the design sees it *)

Seg_a == <<97>>
STR_dist == <<100, 105, 115, 116>>
Seg_b == <<98>>

\* Paths that are neither 'echo' nor 'sensor': the root, one segment, several
\* segments, with and without 'sensor' or 'echo' among them, longer and shorter
\* names.
OtherPaths ==
  {<<>>, <<Seg_x>>, <<Seg_a, Seg_b>>, <<STR_sensor, Seg_x>>, <<Seg_x, STR_sensor>>,
   <<STR_echo, STR_echo>>, <<STR_sensor \o <<115>>>>, <<SubSeq(STR_echo, 1, 3)>>}

\* Every method code 0..4 on each of these paths, a PUT with a payload on one of
\* them, and the requests that set and read the value.
PathDatagrams ==
  {Request(COAP_CON, Token_1, code, 4660, segs, FALSE, <<>>) :
     code \in 0..4, segs \in OtherPaths}
  \cup {Request(COAP_CON, Token_1, COAP_PUT, 4660, <<Seg_a, Seg_b>>, TRUE, Body_5),
        Request(COAP_CON, Token_1, COAP_PUT, 4660, <<STR_sensor>>, TRUE, Body_5),
        Request(COAP_CON, Token_1, COAP_POST, 4660, <<STR_echo>>, TRUE, Body_7),
        Request(COAP_CON, Token_1, COAP_GET, 4660, <<STR_sensor>>, FALSE, <<>>)}

\* What the sensor client builds its POST from: segments of 0, 1, 4, 12, 13 and
\* 16 bytes, message ids, and the payloads "", "{}" and one of 1500 bytes.
ClientPath1 ==
  {<<>>, Seg_a, STR_dist, Text(CLIENT_LEN_LIMIT - 1), Text(CLIENT_LEN_LIMIT),
   Text(CLIENT_LEN_LIMIT + 3)}

ClientPath2 == {<<>>, Seg_b, Text(CLIENT_LEN_LIMIT - 1), Text(CLIENT_LEN_LIMIT)}

\* n closing braces.
Braces(n) == [i \in 1..n |-> 125]

ClientJson == {<<>>, <<123, 125>>, Braces(BUF_SIZE)}

ClientIds == {0, 258, 65535}

ClientCalls ==
  {[fn |-> "buildPost", path1 |-> p1, path2 |-> p2, json |-> j, msgId |-> m] :
     p1 \in ClientPath1, p2 \in ClientPath2, j \in ClientJson, m \in ClientIds}

ClientDatagram(c) == buildPost(c.path1, c.path2, c.json, c.msgId)

ClientDatagrams == {ClientDatagram(c) : c \in ClientCalls}

\* Calls of add_option around the edges of the three forms of a delta and of a
\* length: the literal (0..12), one extension byte (13..268), two extension bytes
\* (269..65804), and one value beyond them.
OptionEdges == {0, 1, 12, 13, 14, 268, 269, 270, 65536 + 268, 65536 + 269}

OptionLasts == {0, 3}

\* The call add_option(out, cap, &last, number, val, vlen) with a buffer that has
\* room for the option, its return value n and the bytes it wrote to out.
add_option_call(last, number, vlen) ==
  LET o == add_option(5 + vlen, last, number, Text(vlen))
  IN  [fn |-> "add_option", last |-> last, number |-> number, vlen |-> vlen,
       n |-> o.n, out |-> o.bytes]

OptionCalls ==
  {add_option_call(last, last + delta, vlen) :
     last \in OptionLasts, delta \in OptionEdges, vlen \in OptionEdges}

\* Headers around the checks of coap_parse: each version, token lengths 0, 1, 7,
\* 8, 9 and 15, followed by one byte less than the token, by the token, or by the
\* token and the option Uri-Path 'sensor'; and the first 0..3 bytes of a header.
Token_15 == [i \in 1..15 |-> i]

HeaderEdge(ver, tkl, k) ==
  <<ver * 64 + COAP_CON * 16 + tkl, COAP_GET, 0, 1>>
    \o SubSeq(Token_15, 1, IF k < 0 THEN Max(tkl - 1, 0) ELSE tkl)
    \o (IF k > 0 THEN UriPathOptions(<<STR_sensor>>, TRUE) ELSE <<>>)

HeaderEdges ==
  {HeaderEdge(ver, tkl, k) : ver \in 0..3, tkl \in {0, 1, 7, 8, 9, 15}, k \in -1..1}
  \cup {SubSeq(HeaderEdge(COAP_VER, 0, 0), 1, n) : n \in 0..3}

\* A request with options in each form: Uri-Path 'sensor', an option with one
\* extension byte for the delta and for the length, an option with two extension
\* bytes for each, and a payload.
LongOptions ==
  Request(COAP_CON, Token_2, COAP_GET, 1, <<STR_sensor>>, FALSE, <<>>)
    \o <<13 * 16 + 13, 7, 0>> \o Text(13)
    \o <<14 * 16 + 14, 0, 1, 0, 1>> \o Text(270)
    \o <<PAYLOAD_MARKER>> \o Body_7

\* That request cut after each of its bytes.
ParsePrefixes == {SubSeq(LongOptions, 1, n) : n \in 0..Len(LongOptions)}

ParseDatagrams == HeaderEdges \cup ParsePrefixes \cup MalformedInputs

\* The largest output buffer the responses are built in when the capacity is
\* what varies: room for the longest of the responses below.
MaxCap == 24

\* Responses built in buffers of 0..MaxCap bytes: for each request type, tokens
\* of 0, 2 and 8 bytes, and the texts "", "7" and "NOT_FOUND".
BuildCalls ==
  {[fn |-> "build_response", cap |-> cap, req_type |-> t, tkl |-> Len(tok),
    tok |-> tok, mid |-> 4660, code |-> COAP_205_CONTENT, payload |-> text] :
     cap \in 0..MaxCap, t \in {COAP_CON, COAP_NON},
     tok \in {<<>>, Token_2, Token_8}, text \in {<<>>, Body_7, STR_NOT_FOUND}}

\* What arrives while the servers are being stopped: two updates, a read, an
\* echo, an unknown path, a datagram coap_parse rejects and an empty datagram.
StopDatagrams ==
  {Request(COAP_CON, Token_1, COAP_PUT, 4660, <<STR_sensor>>, TRUE, Body_5),
   Request(COAP_CON, Token_1, COAP_PUT, 4660, <<STR_sensor>>, TRUE, Body_7),
   Request(COAP_CON, Token_1, COAP_GET, 4660, <<STR_sensor>>, FALSE, <<>>),
   Request(COAP_CON, Token_1, COAP_POST, 4660, <<STR_echo>>, TRUE, Body_7),
   Request(COAP_CON, Token_1, COAP_GET, 4660, <<Seg_x>>, FALSE, <<>>),
   <<64, 3, 0>>,
   <<>>}

\* The Uri-Path options of a request whose segments have any length: the length
\* is written in the nibble or in extension bytes.
RECURSIVE PathOptions(_, _)
PathOptions(segs, last) ==
  IF segs = <<>> THEN <<>>
  ELSE add_option(BUF_SIZE, last, OPT_URI_PATH, Head(segs)).bytes
         \o PathOptions(Tail(segs), OPT_URI_PATH)

\* n segments, each of len bytes.
Segments(n, len) == [i \in 1..n |-> Text(len)]

\* Paths around the size of uri_path[128]: one segment of 1 to 1400 bytes, two
\* segments that with their '/' take 127, 128 or more bytes, and 16 or 32
\* segments; 127 bytes is the longest path the buffer holds with its terminator.
LongPaths ==
  {<<Text(n)>> : n \in {1, 12, 13, URI_PATH_SIZE - 2, URI_PATH_SIZE - 1,
                        URI_PATH_SIZE, URI_PATH_SIZE + 1, 268, 269, 1400}}
  \cup {<<Text(a), Text(b)>> : a \in {63, 64, 126, 127, 200}, b \in {1, 63}}
  \cup {Segments(n, len) : n \in {16, 32}, len \in {3, 7, 8}}

\* Each method on each of these paths, without payload.
LongPathDatagrams ==
  {<<COAP_VER * 64 + COAP_CON * 16 + 1, code, 18, 52>> \o Token_1
     \o PathOptions(segs, 0) :
     code \in COAP_GET..COAP_PUT, segs \in LongPaths}

\* Requests whose responses are the longest: Confirmable and Non-confirmable,
\* without token and with a token of 8 bytes, an echo and an update of 1023
\* bytes, reads, an unknown path; and reads of the other two types.
AnswerReads ==
  {Request(type, tok, COAP_GET, 4660, <<path>>, FALSE, <<>>) :
     type \in {COAP_CON, COAP_NON}, tok \in {<<>>, Token_8},
     path \in {STR_sensor, Seg_x}}
  \cup {Request(type, Token_8, COAP_GET, 4660, <<STR_sensor>>, FALSE, <<>>) :
          type \in {COAP_ACK, COAP_RST}}

AnswerDatagrams ==
  AnswerReads
  \cup {Request(type, tok, COAP_POST, 4660, <<STR_echo>>, TRUE, Text(BODY_SIZE - 1)) :
          type \in {COAP_CON, COAP_NON}, tok \in {<<>>, Token_8}}
  \cup {Request(type, tok, COAP_PUT, 4660, <<STR_sensor>>, TRUE, Text(BODY_SIZE - 1)) :
          type \in {COAP_CON, COAP_NON}, tok \in {<<>>, Token_8}}

\* The requests of BodyDatagrams that update nothing.
BodyReads ==
  {Request(COAP_CON, Token_1, COAP_GET, 4660, <<STR_sensor>>, FALSE, <<>>)}

AllDatagrams ==
  Datagrams \cup CodecDatagrams \cup BodyDatagrams \cup PathDatagrams
    \cup ClientDatagrams \cup {recvfrom(d) : d \in ClientDatagrams}
    \cup ParseDatagrams \cup LongPathDatagrams \cup AnswerDatagrams

\* What coap_parse of server_persist_clean.c makes of each datagram.
ParsedTable == [d \in AllDatagrams |-> coap_parse_persist(recvfrom(d))]

Parsed(d) == ParsedTable[d]

\* What coap_parse of server.c makes of each datagram.
VolatileParsedTable == [d \in AllDatagrams |-> coap_parse(recvfrom(d))]

VolatileParsed(d) == VolatileParsedTable[d]

-----------------------------------------------------------------------------
(* The two servers: one iteration of the receive loop *)

\* Mutant of body_text: the payload is taken whole.
body_text_untruncated(payload) == CStr(payload)

\* char body[1024]: the payload as text, cut to 1023 bytes and terminated.
body_text(payload) ==
  IF Len(payload) > 0
  THEN CStr(SubSeq(payload, 1, Min(Len(payload), BODY_SIZE - 1)))
  ELSE <<>>

\* Mutant of not_found_reply: an unknown path is answered 2.05.
not_found_reply_content ==
  [code |-> COAP_205_CONTENT, resp |-> snprintf_s(RESP_SIZE, STR_NOT_FOUND)]

\* The final else of both dispatches: 4.04 with the text NOT_FOUND.
not_found_reply ==
  [code |-> COAP_404_NOTFOUND, resp |-> snprintf_s(RESP_SIZE, STR_NOT_FOUND)]

\* Mutant of echo_text: the body is echoed without the prefix.
echo_text_no_prefix(body) == snprintf_s(RESP_SIZE, body)

\* snprintf(resp, sizeof(resp), "echo: %s", body).
echo_text(body) == snprintf_s(RESP_SIZE, STR_ECHO_PREFIX \o body)

\* Mutant of dispatch_volatile: a GET 'sensor' hands the value out and leaves
\* NO_DATA behind.
dispatch_volatile_get_clears(method, path, body, g) ==
  IF path = STR_sensor /\ method = COAP_GET
  THEN [code |-> COAP_205_CONTENT, resp |-> snprintf_s(RESP_SIZE, g),
        g_state |-> STR_NO_DATA]
  ELSE IF path = STR_sensor /\ method = COAP_PUT
  THEN [code |-> COAP_204_CHANGED, resp |-> snprintf_s(RESP_SIZE, STR_UPDATED),
        g_state |-> snprintf_s(G_STATE_SIZE, body)]
  ELSE not_found_reply @@ [g_state |-> g]

\* Mutant of dispatch_volatile: POST 'echo' stores the body as the value, as the
\* persistent server does.
dispatch_volatile_echo_stores(method, path, body, g) ==
  IF path = STR_echo /\ method = COAP_POST
  THEN [code |-> COAP_205_CONTENT,
        resp |-> echo_text(body),
        g_state |-> snprintf_s(G_STATE_SIZE, body)]
  ELSE IF path = STR_sensor
  THEN IF method = COAP_PUT
       THEN [code |-> COAP_204_CHANGED,
             resp |-> snprintf_s(RESP_SIZE, STR_UPDATED),
             g_state |-> snprintf_s(G_STATE_SIZE, body)]
       ELSE IF method = COAP_GET
       THEN [code |-> COAP_205_CONTENT,
             resp |-> snprintf_s(RESP_SIZE, g),
             g_state |-> g]
       ELSE [code |-> COAP_405_METHODNA,
             resp |-> snprintf_s(RESP_SIZE, STR_METHOD_NOT_ALLOWED),
             g_state |-> g]
  ELSE not_found_reply @@ [g_state |-> g]

\* server.c, the dispatch: response code, response text and the new g_state.
dispatch_volatile(method, path, body, g) ==
  IF path = STR_echo /\ method = COAP_POST
  THEN [code |-> COAP_205_CONTENT,
        resp |-> echo_text(body),
        g_state |-> g]
  ELSE IF path = STR_sensor
  THEN IF method = COAP_PUT
       THEN [code |-> COAP_204_CHANGED,
             resp |-> snprintf_s(RESP_SIZE, STR_UPDATED),
             g_state |-> snprintf_s(G_STATE_SIZE, body)]
       ELSE IF method = COAP_GET
       THEN [code |-> COAP_205_CONTENT,
             resp |-> snprintf_s(RESP_SIZE, g),
             g_state |-> g]
       ELSE [code |-> COAP_405_METHODNA,
             resp |-> snprintf_s(RESP_SIZE, STR_METHOD_NOT_ALLOWED),
             g_state |-> g]
  ELSE not_found_reply @@ [g_state |-> g]

\* Mutant of serve_volatile: only a Confirmable request is answered.
serve_volatile_con_only(req, g) ==
  LET body == body_text(req.payload)
      r == dispatch_volatile(req.code, req.uri_path, body, g)
      out == build_response(BUF_SIZE, req.type, req.tkl, req.token, req.mid,
                            r.code, r.resp)
  IN  [sent |-> IF req.type = COAP_CON THEN send_response(out) ELSE <<>>,
       g_state |-> r.g_state,
       dispatched |-> TRUE]

\* server.c, lines 218-270: a parsed request is dispatched and answered.
serve_volatile(req, g) ==
  LET body == body_text(req.payload)
      r == dispatch_volatile(req.code, req.uri_path, body, g)
      out == build_response(BUF_SIZE, req.type, req.tkl, req.token, req.mid,
                            r.code, r.resp)
  IN  [sent |-> send_response(out),
       g_state |-> r.g_state,
       dispatched |-> TRUE]

\* Mutant of main_volatile: a datagram coap_parse rejects is answered 4.00
\* instead of being dropped.
main_volatile_answers_rejected(d, g) ==
  LET buf == recvfrom(d)
  IN  IF Len(buf) <= 0
      THEN [sent |-> <<>>, g_state |-> g, dispatched |-> FALSE, overrun |-> FALSE]
      ELSE LET req == coap_parse(buf)
           IN  (IF ~req.ok
                THEN [sent |-> <<build_response(BUF_SIZE, COAP_CON, 0, <<>>, 0, 128, <<>>)>>,
                      g_state |-> g, dispatched |-> FALSE]
                ELSE serve_volatile(req, g)) @@ [overrun |-> req.overrun]

\* server.c, one iteration of while (!stop_flag); req is what coap_parse makes
\* of the received bytes (VolatileParsedTable holds it for every datagram);
\* overrun: coap_parse wrote beyond uri_path in it.
main_volatile(d, g) ==
  LET buf == recvfrom(d)
      dropped == [sent |-> <<>>, g_state |-> g, dispatched |-> FALSE]
  IN  IF Len(buf) <= 0 THEN dropped @@ [overrun |-> FALSE]
      ELSE LET req == VolatileParsed(d)
           IN  (IF ~req.ok THEN dropped ELSE serve_volatile(req, g))
                 @@ [overrun |-> req.overrun]

\* The process of server.c is gone: nothing is received, sent or stored.
volatile_gone(g) ==
  [sent |-> <<>>, g_state |-> g, dispatched |-> FALSE, overrun |-> FALSE,
   aborted |-> TRUE]

\* What an iteration of server.c can do with the datagram d.  When strncat wrote
\* beyond uri_path[128] the behaviour is undefined: the bytes land in the memory
\* after uri_path and the request is served, by the first bytes of the path, or
\* the process is ended (a checked strncat, a stack protector, a fault).
main_volatile_outcomes(d, g) ==
  LET r == main_volatile(d, g)
  IN  {r @@ [aborted |-> FALSE]}
        \cup (IF r.overrun THEN {volatile_gone(g)} ELSE {})

\* The read of GET 'sensor' of the persistent server: current file, else
\* history log, else NO_DATA.
read_current(current, history) ==
  LET c == read_last_line(current, LINE_SIZE)
      h == read_last_line(history, LINE_SIZE)
  IN  IF c.found THEN snprintf_s(RESP_SIZE, c.line)
      ELSE IF h.found THEN snprintf_s(RESP_SIZE, extract_state(h.line, LINE_SIZE))
      ELSE snprintf_s(RESP_SIZE, STR_NO_DATA)

\* Mutant of write_reply: the return value of the update is ignored.
write_reply_ignores_failure(ret, code, text) ==
  [code |-> code, resp |-> snprintf_s(RESP_SIZE, text)]

\* The reply to an update: the success code and text when
\* write_current_and_history returned 0, else 5.00 WRITE_FAIL.
write_reply(ret, code, text) ==
  IF ret = 0
  THEN [code |-> code, resp |-> snprintf_s(RESP_SIZE, text)]
  ELSE [code |-> COAP_500_INTERR, resp |-> snprintf_s(RESP_SIZE, STR_WRITE_FAIL)]

\* server_persist_clean.c, the dispatch: response code, response text, the files
\* after it and what write_current_and_history did.
dispatch_persist(method, path, body, current, history, plan, now) ==
  LET w == write_current_and_history(current, history, body, plan, now)
      same == [current |-> current, history |-> history, io |-> NotCalled]
      wrote == [current |-> w.current, history |-> w.history, io |-> w.io]
  IN  IF method = COAP_GET /\ path = STR_sensor
      THEN [code |-> COAP_205_CONTENT, resp |-> read_current(current, history)] @@ same
      ELSE IF method = COAP_POST /\ path = STR_echo
      THEN write_reply(w.ret, COAP_205_CONTENT, echo_text(body)) @@ wrote
      ELSE IF method = COAP_PUT /\ path = STR_sensor
      THEN write_reply(w.ret, COAP_204_CHANGED, STR_UPDATED) @@ wrote
      ELSE not_found_reply @@ same

\* server_persist_clean.c, lines 255-304: a parsed request is dispatched and answered.
serve_persist(req, current, history, plan, now) ==
  LET body == body_text(req.payload)
      r == dispatch_persist(req.code, req.uri_path, body, current, history, plan, now)
      out == build_resp(BUF_SIZE, req.type, req.tkl, req.token, req.mid,
                        r.code, r.resp)
  IN  [sent |-> send_response(out),
       current |-> r.current,
       history |-> r.history,
       io |-> r.io,
       dispatched |-> TRUE]

\* server_persist_clean.c, one iteration of while (!g_stop); req is what
\* coap_parse makes of the received bytes (ParsedTable holds it for every
\* datagram).
main_persist(d, current, history, plan, now) ==
  LET buf == recvfrom(d)
      dropped == [sent |-> <<>>, current |-> current, history |-> history,
                  io |-> NotCalled, dispatched |-> FALSE]
  IN  IF Len(buf) <= 0 THEN dropped
      ELSE LET req == Parsed(d)
           IN  IF ~req.ok THEN dropped
               ELSE serve_persist(req, current, history, plan, now)

-----------------------------------------------------------------------------
(* The requests among the datagrams *)

\* The request q, as coap_parse left it, is a PUT 'sensor'.
PutSensorRequest(q) == q.ok /\ q.code = COAP_PUT /\ q.uri_path = STR_sensor

\* The request q is a GET 'sensor'.
GetSensorRequest(q) == q.ok /\ q.code = COAP_GET /\ q.uri_path = STR_sensor

\* The request q is a POST 'echo'.
PostEchoRequest(q) == q.ok /\ q.code = COAP_POST /\ q.uri_path = STR_echo

\* The request q is one of the two that write.
WriteRequest(q) == PutSensorRequest(q) \/ PostEchoRequest(q)

Accepted(d) == Len(d) > 0 /\ Parsed(d).ok

IsPutSensor(d) == Len(d) > 0 /\ PutSensorRequest(Parsed(d))

IsGetSensor(d) == Len(d) > 0 /\ GetSensorRequest(Parsed(d))

IsPostEcho(d) == Len(d) > 0 /\ PostEchoRequest(Parsed(d))

IsWrite(d) == Len(d) > 0 /\ WriteRequest(Parsed(d))

BodyOf(d) == body_text(Parsed(d).payload)

-----------------------------------------------------------------------------
(* The system: both servers receive the datagram d *)

NoPut == [valid |-> FALSE, body |-> <<>>, written |-> FALSE]

NoPlan == [cur |-> "ok", hist |-> "ok"]

NoCall == [fn |-> "none"]

\* while (!stop_flag): the test that ends an iteration; the loop is left when the
\* flag is set, else the server is at recvfrom again.
loop_test(flag) == IF flag THEN "done" ELSE "recv"

Init ==
  /\ g_state = STR_NO_DATA
  /\ currentFile = <<>>
  /\ historyFile = <<>>
  /\ inbuf = <<>>
  /\ vSent = <<>>
  /\ pSent = <<>>
  /\ vDispatched = FALSE
  /\ pDispatched = FALSE
  /\ lastIo = NotCalled
  /\ sincePut = NoPut
  /\ putSeen = FALSE
  /\ goodWrites = <<>>
  /\ vAborted = FALSE
  /\ stop_flag = FALSE
  /\ pc = "recv"
  /\ call = NoCall

Receive(d, plan, now) ==
  \E v \in (IF vAborted THEN {volatile_gone(g_state)}
            ELSE main_volatile_outcomes(d, g_state)),
     p \in {main_persist(d, currentFile, historyFile, plan, now)} :
    LET wrote == p.io.called /\ p.io.ret = 0
    IN  /\ wrote => Len(goodWrites) < MaxWrites
        /\ inbuf' = recvfrom(d)
        /\ g_state' = v.g_state
        /\ vSent' = v.sent
        /\ vDispatched' = v.dispatched
        /\ vAborted' = v.aborted
        /\ currentFile' = p.current
        /\ historyFile' = p.history
        /\ pSent' = p.sent
        /\ pDispatched' = p.dispatched
        /\ lastIo' = p.io
        /\ sincePut' = IF IsPutSensor(d)
                       THEN [valid |-> TRUE, body |-> Parsed(d).payload, written |-> wrote]
                       ELSE IF IsWrite(d) THEN NoPut ELSE sincePut
        /\ putSeen' = (putSeen \/ IsPutSensor(d))
        /\ goodWrites' = IF wrote THEN Append(goodWrites, BodyOf(d)) ELSE goodWrites

\* One loop iteration on a datagram of the set D; the environment decides the
\* outcome of the file writes and the time when the request is a write.
Step(D) ==
  \E d \in D :
    \E plan \in (IF IsWrite(d) THEN IoPlans ELSE {NoPlan}) :
      \E now \in Times(Len(goodWrites)) :
        /\ pc = "recv"
        /\ Receive(d, plan, now)
        /\ pc' = loop_test(stop_flag)
        /\ UNCHANGED stop_flag
        /\ call' = NoCall

Next == Step(Datagrams)

Spec == Init /\ [][Next]_vars

\* The same clients when no file operation fails.
NextReliable ==
  \E d \in Datagrams :
    \E now \in Times(Len(goodWrites)) :
      /\ pc = "recv"
      /\ Receive(d, NoPlan, now)
      /\ pc' = loop_test(stop_flag)
      /\ UNCHANGED stop_flag
      /\ call' = NoCall

SpecReliable == Init /\ [][NextReliable]_vars

NextCodec == Step(CodecDatagrams)

SpecCodec == Init /\ [][NextCodec]_vars

\* The clients that send the bodies around the size of body[1024]: after
\* MaxBodyWrites successful updates they only read.
NextBody ==
  Step(IF Len(goodWrites) < MaxBodyWrites THEN BodyDatagrams ELSE BodyReads)

SpecBody == Init /\ [][NextBody]_vars

\* The sensor client: it builds a POST with buildPost and sends it.
NextClient ==
  \E c \in ClientCalls :
    \E d \in {ClientDatagram(c)} :
      \E plan \in (IF IsWrite(d) THEN IoPlans ELSE {NoPlan}) :
        \E now \in Times(Len(goodWrites)) :
          /\ pc = "recv"
          /\ Receive(d, plan, now)
          /\ pc' = loop_test(stop_flag)
          /\ UNCHANGED stop_flag
          /\ call' = c

SpecClient == Init /\ [][NextClient]_vars

\* The option encoder on its own: one call of add_option, whose arguments and
\* output are kept in call; the servers are not involved.
NextOptions ==
  \E c \in OptionCalls :
    /\ call' = c
    /\ UNCHANGED <<g_state, currentFile, historyFile, inbuf, vSent, pSent,
                   vDispatched, pDispatched, lastIo, sincePut, putSeen,
                   goodWrites, vAborted, stop_flag, pc>>

SpecOptions == Init /\ [][NextOptions]_vars

\* The clients that send the headers and the cut requests.
NextParse == Step(ParseDatagrams)

SpecParse == Init /\ [][NextParse]_vars

\* The end of an iteration, lines 264-270, with an output buffer of c.cap bytes:
\* the response is built and, when the length returned is above 0, sent.
NextBuild ==
  \E c \in BuildCalls :
    /\ pc = "recv"
    /\ vSent' = send_response(build_response(c.cap, c.req_type, c.tkl, c.tok,
                                               c.mid, c.code, c.payload))
    /\ pSent' = send_response(build_resp(c.cap, c.req_type, c.tkl, c.tok,
                                           c.mid, c.code, c.payload))
    /\ call' = c
    /\ UNCHANGED <<g_state, currentFile, historyFile, inbuf, vDispatched,
                   pDispatched, lastIo, sincePut, putSeen, goodWrites,
                   vAborted, stop_flag, pc>>

SpecBuild == Init /\ [][NextBuild]_vars

\* What a request changes.
request_vars ==
  <<g_state, currentFile, historyFile, inbuf, vSent, pSent, vDispatched,
    pDispatched, lastIo, sincePut, putSeen, goodWrites, vAborted>>

\* One loop iteration on a datagram of the set D while the servers can be
\* stopped.  in_flight: the stop signal is delivered while the request is being
\* processed; on_sigint sets the flag, the iteration goes on to its end and the
\* loop test finds the flag set.
StepOrSignal(D) ==
  \E in_flight \in BOOLEAN :
    \E d \in D :
      \E plan \in (IF IsWrite(d) THEN IoPlans ELSE {NoPlan}) :
        \E now \in Times(Len(goodWrites)) :
          /\ pc = "recv"
          /\ in_flight => ~stop_flag
          /\ Receive(d, plan, now)
          /\ stop_flag' = (stop_flag \/ in_flight)
          /\ pc' = loop_test(stop_flag \/ in_flight)
          /\ call' = NoCall

\* The stop signal is delivered while the server is at recvfrom and the call
\* goes on waiting: the signal came between the loop test and the call, or
\* signal() installed the handler with the flag that restarts the call
\* (server.c as it is compiled: gcc without -std).
SignalRestarted ==
  /\ pc = "recv"
  /\ ~stop_flag
  /\ stop_flag' = TRUE
  /\ UNCHANGED <<request_vars, pc, call>>

\* The stop signal is delivered while the server waits in recvfrom and the call
\* returns -1 (EINTR): signal() installed the handler without the restart flag
\* (server_persist_clean.c as it is compiled: gcc -std=c99).
SignalInterrupts ==
  /\ pc = "recv"
  /\ ~stop_flag
  /\ stop_flag' = TRUE
  /\ pc' = "eintr"
  /\ UNCHANGED <<request_vars, call>>

\* if (n <= 0) continue; and the loop test, after recvfrom returned -1.
Interrupted ==
  /\ pc = "eintr"
  /\ pc' = loop_test(stop_flag)
  /\ UNCHANGED <<request_vars, stop_flag, call>>

\* The servers, their clients and the stop signal.  The server's own step is
\* taken when it can be; that a datagram arrives is up to the clients.
NextStop ==
  \/ StepOrSignal(StopDatagrams)
  \/ SignalRestarted
  \/ SignalInterrupts
  \/ Interrupted

SpecStop == Init /\ [][NextStop]_vars /\ WF_vars(Interrupted)

\* The clients that ask for paths around and beyond the size of uri_path.
NextLongPath == Step(LongPathDatagrams)

SpecLongPath == Init /\ [][NextLongPath]_vars

\* The clients whose requests get the longest responses: after MaxBodyWrites
\* successful updates they only read.
NextAnswer ==
  Step(IF Len(goodWrites) < MaxBodyWrites THEN AnswerDatagrams ELSE AnswerReads)

SpecAnswer == Init /\ [][NextAnswer]_vars

\* The clients that ask for paths the servers do not know.
NextPaths == Step(PathDatagrams)

SpecPaths == Init /\ [][NextPaths]_vars

-----------------------------------------------------------------------------
(* Reading a response datagram, as a client does *)

MsgType(m) == (m[1] \div 16) % 4
MsgTkl(m) == m[1] % 16
MsgCode(m) == m[2]
MsgId(m) == m[3] * 256 + m[4]
MsgToken(m) == SubSeq(m, 5, 4 + MsgTkl(m))

\* The payload of a response: what follows the marker after the token and the
\* two bytes of the Content-Format option.
MsgBody(m) ==
  LET o == 4 + MsgTkl(m) + 2
  IN  IF Len(m) > o /\ m[o + 1] = PAYLOAD_MARKER THEN SubSeq(m, o + 2, Len(m)) ELSE <<>>

\* Exactly one datagram was sent, with this code and this body.
Answered(sent, code, body) ==
  /\ Len(sent) = 1
  /\ MsgCode(sent[1]) = code
  /\ MsgBody(sent[1]) = body

HasNoNul(b) == \A i \in 1..Len(b) : b[i] # NUL

\* A text that is one line: no NUL, no LF, not ending in CR.
OneLine(b) ==
  /\ \A i \in 1..Len(b) : b[i] # NUL /\ b[i] # LF
  /\ Len(b) > 0 => b[Len(b)] # CR

-----------------------------------------------------------------------------
(* C1 *)

\* C1 as stated: in both servers, a PUT 'sensor' with a text body b (its writes
\* succeeding) is answered 2.04 UPDATED, and a GET 'sensor' with no write request
\* in between is answered 2.05 with exactly b, whatever line ends b holds.
C1_PutThenGetAnyText ==
  /\ IsPutSensor(inbuf) /\ lastIo.ret = 0 =>
       /\ Answered(vSent, COAP_204_CHANGED, STR_UPDATED)
       /\ Answered(pSent, COAP_204_CHANGED, STR_UPDATED)
  /\ IsGetSensor(inbuf) /\ sincePut.valid /\ sincePut.written
       /\ HasNoNul(sincePut.body) =>
       /\ Answered(vSent, COAP_205_CONTENT, sincePut.body)
       /\ Answered(pSent, COAP_205_CONTENT, sincePut.body)

\* C1 amended: a PUT 'sensor' with a text body b is answered 2.04 UPDATED (by the
\* persistent server when both file writes succeed); a GET 'sensor' with no write
\* request in between is answered 2.05 with exactly b by the volatile server, and
\* by the persistent server when b holds no LF and does not end in CR.
C1_PutThenGet ==
  /\ IsPutSensor(inbuf) =>
       /\ Answered(vSent, COAP_204_CHANGED, STR_UPDATED)
       /\ lastIo.ret = 0 => Answered(pSent, COAP_204_CHANGED, STR_UPDATED)
  /\ IsGetSensor(inbuf) /\ sincePut.valid /\ HasNoNul(sincePut.body) =>
       Answered(vSent, COAP_205_CONTENT, sincePut.body)
  /\ IsGetSensor(inbuf) /\ sincePut.valid /\ sincePut.written
       /\ OneLine(sincePut.body) =>
       Answered(pSent, COAP_205_CONTENT, sincePut.body)

\* A GET 'sensor' answered by both servers with the body "5" of the PUT before it.
C1_Witness ==
  /\ IsGetSensor(inbuf)
  /\ sincePut.valid /\ sincePut.written /\ sincePut.body = Body_5
  /\ Answered(vSent, COAP_205_CONTENT, Body_5)
  /\ Answered(pSent, COAP_205_CONTENT, Body_5)

-----------------------------------------------------------------------------
(* C2 *)

\* C2 as stated: a parsed request on 'sensor' whose method is neither GET nor PUT
\* is answered 4.05 METHOD_NOT_ALLOWED by every server.
C2_MethodNotAllowed ==
  Accepted(inbuf) /\ Parsed(inbuf).uri_path = STR_sensor
    /\ Parsed(inbuf).code \notin {COAP_GET, COAP_PUT} =>
    /\ Answered(vSent, COAP_405_METHODNA, STR_METHOD_NOT_ALLOWED)
    /\ Answered(pSent, COAP_405_METHODNA, STR_METHOD_NOT_ALLOWED)

-----------------------------------------------------------------------------
(* C3 *)

\* C3 as stated: from an empty store and with no file failure, the two servers
\* answer every request alike (checked under SpecReliable).
C3_Interchangeable == vSent = pSent

-----------------------------------------------------------------------------
(* C4 *)

\* C4: every response sent carries the message id and the token of the request
\* and is an Acknowledgement for a Confirmable request, NonConfirmable otherwise.
C4_EchoesHeader ==
  \A sent \in {vSent, pSent} :
    \A i \in 1..Len(sent) :
      /\ MsgId(sent[i]) = MsgId(inbuf)
      /\ MsgTkl(sent[i]) = MsgTkl(inbuf)
      /\ MsgToken(sent[i]) = MsgToken(inbuf)
      /\ Len(MsgToken(sent[i])) = MsgTkl(inbuf)
      /\ MsgType(sent[i]) = IF MsgType(inbuf) = COAP_CON THEN COAP_ACK ELSE COAP_NON

\* A NonConfirmable request with an 8-byte token answered 4.04 by both servers.
C4_Witness ==
  /\ Len(inbuf) >= 4 /\ MsgType(inbuf) = COAP_NON /\ MsgToken(inbuf) = Token_8
  /\ Len(vSent) = 1 /\ MsgCode(vSent[1]) = COAP_404_NOTFOUND
  /\ MsgType(vSent[1]) = COAP_NON /\ MsgToken(vSent[1]) = Token_8
  /\ pSent = vSent

-----------------------------------------------------------------------------
(* C5 *)

\* C5 as stated: a datagram of type Acknowledgement or Reset is never dispatched:
\* no response is sent for it.
C5_AckRstNotDispatched ==
  Len(inbuf) >= 4 /\ MsgType(inbuf) \in {COAP_ACK, COAP_RST} =>
    /\ vSent = <<>> /\ pSent = <<>>
    /\ ~vDispatched /\ ~pDispatched

-----------------------------------------------------------------------------
(* C6 *)

\* The datagram was received and coap_parse rejected it.
Rejected(d) == Len(d) > 0 /\ ~Parsed(d).ok

\* C6: for a datagram that parse rejects no response is sent, nothing is
\* dispatched, the value and the files are unchanged; and the datagram that comes
\* after it, when parse accepts it, is dispatched and answered by both servers.
C6_RejectedDropped ==
  [][/\ Rejected(inbuf') =>
          /\ vSent' = <<>> /\ pSent' = <<>>
          /\ ~vDispatched' /\ ~pDispatched'
          /\ UNCHANGED <<g_state, currentFile, historyFile>>
     /\ Rejected(inbuf) /\ Accepted(inbuf') =>
          /\ vDispatched' /\ pDispatched'
          /\ Len(vSent') = 1 /\ Len(pSent') = 1
          /\ MsgId(vSent'[1]) = MsgId(inbuf')]_vars

\* A rejected datagram arrived after a PUT had stored "5", and nothing was sent.
C6_Witness ==
  /\ Rejected(inbuf)
  /\ g_state = Body_5 /\ currentFile = Body_5 \o <<LF>>
  /\ vSent = <<>> /\ pSent = <<>>

-----------------------------------------------------------------------------
(* C7 *)

\* C7 as stated: every update attempts both file writes, the history append also
\* when the overwrite of the current state fails, and reports a failure exactly
\* when one of the two writes fails.
C7_BothWritesAttempted ==
  lastIo.called =>
    /\ lastIo.cur # "none" /\ lastIo.hist # "none"
    /\ lastIo.ret # 0 <=> (lastIo.cur # "ok" \/ lastIo.hist # "ok")

-----------------------------------------------------------------------------
(* C8 *)

\* C8: when the update of PUT 'sensor' or POST 'echo' reports a failure, the
\* response is 5.00 WRITE_FAIL; nothing is written again (the log is as before the
\* request), an overwrite of the current state that succeeded stays in place, and
\* the next accepted datagram is dispatched and answered.
C8_WriteFailReported ==
  [][/\ lastIo'.called /\ lastIo'.ret # 0 =>
          /\ IsWrite(inbuf')
          /\ Answered(pSent', COAP_500_INTERR, STR_WRITE_FAIL)
          /\ historyFile' = historyFile
          /\ lastIo'.cur = "ok" => currentFile' = BodyOf(inbuf') \o <<LF>>
          /\ lastIo'.cur = "open_fail" => currentFile' = currentFile
     /\ lastIo.called /\ lastIo.ret # 0 /\ Accepted(inbuf') =>
          pDispatched' /\ Len(pSent') = 1]_vars

\* A PUT "7" whose history append failed after "5" had been stored: answered
\* 5.00 WRITE_FAIL, the current state is "7" and the log still ends with "5".
C8_Witness ==
  /\ IsPutSensor(inbuf) /\ BodyOf(inbuf) = Body_7
  /\ lastIo.called /\ lastIo.ret # 0 /\ lastIo.cur = "ok"
  /\ Answered(pSent, COAP_500_INTERR, STR_WRITE_FAIL)
  /\ currentFile = Body_7 \o <<LF>>
  /\ goodWrites = <<Body_5>>

-----------------------------------------------------------------------------
(* C9 *)

ISO_LEN == 20

\* The log holds one entry per value of vals, in order: a timestamp of 20 bytes,
\* " payload=", the value, a line feed.
RECURSIVE HoldsEntries(_, _)
HoldsEntries(log, vals) ==
  IF vals = <<>> THEN log = <<>>
  ELSE LET rest == <<32>> \o STR_PAYLOAD_TAG \o Head(vals) \o <<LF>>
           n == ISO_LEN + Len(rest)
       IN  /\ Len(log) >= n
           /\ SubSeq(log, ISO_LEN + 1, n) = rest
           /\ HoldsEntries(SubSeq(log, n + 1, Len(log)), Tail(vals))

IsPrefix(a, b) == Len(a) <= Len(b) /\ SubSeq(b, 1, Len(a)) = a

\* C9 as stated: the log holds one entry per successful update, in order, and the
\* current-state read returns the value of the last successful update.
C9_ReadsLastSuccessfulWrite ==
  /\ HoldsEntries(historyFile, goodWrites)
  /\ goodWrites # <<>> =>
       read_current(currentFile, historyFile) = goodWrites[Len(goodWrites)]

\* C9 amended: the log holds one entry per successful update, in order, and what
\* it holds never changes; the current-state read returns the value of the
\* update just made when that update succeeded and its value holds no LF and
\* does not end in CR, and requests that are no update leave both files as they
\* are.
C9_AppendOnly ==
  /\ [](HoldsEntries(historyFile, goodWrites))
  /\ [][/\ IsPrefix(historyFile, historyFile')
        /\ lastIo'.called /\ lastIo'.ret = 0 /\ OneLine(BodyOf(inbuf')) =>
             read_current(currentFile', historyFile') = BodyOf(inbuf')
        /\ ~lastIo'.called => UNCHANGED <<currentFile, historyFile>>]_vars

\* After the updates "5" then "7" the read returns "7" and the log holds both.
C9_Witness ==
  /\ goodWrites = <<Body_5, Body_7>>
  /\ lastIo.called /\ lastIo.ret = 0
  /\ read_current(currentFile, historyFile) = Body_7
  /\ HoldsEntries(historyFile, <<Body_5, Body_7>>)

-----------------------------------------------------------------------------
(* C10 *)

\* s without the CR and LF bytes that end it.
RECURSIVE StripEnd(_)
StripEnd(s) ==
  IF s # <<>> /\ s[Len(s)] \in {LF, CR} THEN StripEnd(SubSeq(s, 1, Len(s) - 1)) ELSE s

\* What follows the last LF of s.
RECURSIVE AfterLastLF(_)
AfterLastLF(s) ==
  IF s = <<>> \/ s[Len(s)] = LF THEN <<>>
  ELSE Append(AfterLastLF(SubSeq(s, 1, Len(s) - 1)), s[Len(s)])

\* The last non-empty line of a file, without its line end (<<>>: there is none).
LastLine(f) == AfterLastLF(StripEnd(f))

\* The texts that follow an occurrence of "payload=" in a line.
AfterTag(line) ==
  {SubSeq(line, i + Len(STR_PAYLOAD_TAG), Len(line)) :
     i \in {j \in 1..(Len(line) - Len(STR_PAYLOAD_TAG) + 1) :
              SubSeq(line, j, j + Len(STR_PAYLOAD_TAG) - 1) = STR_PAYLOAD_TAG}}

\* C10 as stated: a GET 'sensor' is answered 2.05; by the persistent server with
\* the last non-empty line of the current-state file, else with the text after
\* "payload=" in the last non-empty line of the log, else with NO_DATA; by the
\* volatile server with NO_DATA before any PUT.
C10_ResolutionOrder ==
  IsGetSensor(inbuf) =>
    /\ Len(vSent) = 1 /\ MsgCode(vSent[1]) = COAP_205_CONTENT
    /\ ~putSeen => MsgBody(vSent[1]) = STR_NO_DATA
    /\ Len(pSent) = 1 /\ MsgCode(pSent[1]) = COAP_205_CONTENT
    /\ IF LastLine(currentFile) # <<>>
       THEN MsgBody(pSent[1]) = LastLine(currentFile)
       ELSE IF LastLine(historyFile) # <<>>
       THEN MsgBody(pSent[1]) \in AfterTag(LastLine(historyFile))
       ELSE MsgBody(pSent[1]) = STR_NO_DATA

\* C10 amended: as stated, but the text taken from the last non-empty line of the
\* log is what follows the first "payload=" in it, or that whole line when it
\* holds no "payload=".
C10_ResolutionOrderOrWholeLine ==
  IsGetSensor(inbuf) =>
    /\ Len(vSent) = 1 /\ MsgCode(vSent[1]) = COAP_205_CONTENT
    /\ ~putSeen => MsgBody(vSent[1]) = STR_NO_DATA
    /\ Len(pSent) = 1 /\ MsgCode(pSent[1]) = COAP_205_CONTENT
    /\ IF LastLine(currentFile) # <<>>
       THEN MsgBody(pSent[1]) = LastLine(currentFile)
       ELSE IF LastLine(historyFile) # <<>>
       THEN IF AfterTag(LastLine(historyFile)) # {}
            THEN /\ MsgBody(pSent[1]) \in AfterTag(LastLine(historyFile))
                 /\ \A t \in AfterTag(LastLine(historyFile)) :
                      Len(t) <= Len(MsgBody(pSent[1]))
            ELSE MsgBody(pSent[1]) = LastLine(historyFile)
       ELSE MsgBody(pSent[1]) = STR_NO_DATA

\* A GET 'sensor' answered from the log: the current-state file holds no line and
\* the last entry of the log holds "5".
C10_Witness ==
  /\ IsGetSensor(inbuf)
  /\ LastLine(currentFile) = <<>>
  /\ goodWrites # <<>> /\ goodWrites[Len(goodWrites)] = Body_5
  /\ Answered(pSent, COAP_205_CONTENT, Body_5)

-----------------------------------------------------------------------------
(* C11 *)

\* C11: a POST 'echo' whose payload b has at most 1023 bytes is answered 2.05
\* with the body "echo: " followed by b (b being text: bytes up to the first zero
\* byte), by the volatile server always and by the persistent server when its
\* update succeeds.
C11_EchoReturnsBody ==
  IsPostEcho(inbuf) /\ Len(Parsed(inbuf).payload) <= BODY_SIZE - 1 =>
    LET b == CStr(Parsed(inbuf).payload)
    IN  /\ Answered(vSent, COAP_205_CONTENT, STR_ECHO_PREFIX \o b)
        /\ lastIo.ret = 0 => Answered(pSent, COAP_205_CONTENT, STR_ECHO_PREFIX \o b)
        /\ HasNoNul(Parsed(inbuf).payload) => b = Parsed(inbuf).payload

\* A POST 'echo' with a body of 1023 bytes, echoed whole by both servers.
C11_Witness ==
  /\ IsPostEcho(inbuf) /\ Parsed(inbuf).payload = Text(BODY_SIZE - 1)
  /\ lastIo.called /\ lastIo.ret = 0
  /\ Answered(vSent, COAP_205_CONTENT, STR_ECHO_PREFIX \o Text(BODY_SIZE - 1))
  /\ pSent = vSent

-----------------------------------------------------------------------------
(* C18 *)

\* The body text of a payload as the claim gives it: the first min(n, 1023)
\* bytes, ended by the terminator (a zero byte in them ends the text earlier).
Truncated(payload) == CStr(SubSeq(payload, 1, Min(Len(payload), BODY_SIZE - 1)))

\* C18: the body text of a request is its first min(n, 1023) payload bytes and
\* fits body[1024] with its terminator; PUT 'sensor' stores it (volatile: in
\* g_state; persistent, when the update succeeds: in the current-state file and
\* in the new entry of the log), POST 'echo' echoes it, and a GET 'sensor' after
\* the PUT returns it.
C18_BodyTruncated ==
  /\ Accepted(inbuf) =>
       /\ BodyOf(inbuf) = Truncated(Parsed(inbuf).payload)
       /\ Len(BodyOf(inbuf)) + 1 <= BODY_SIZE
  /\ IsPutSensor(inbuf) =>
       /\ g_state = Truncated(Parsed(inbuf).payload)
       /\ lastIo.ret = 0 =>
            /\ currentFile = Truncated(Parsed(inbuf).payload) \o <<LF>>
            /\ goodWrites[Len(goodWrites)] = Truncated(Parsed(inbuf).payload)
            /\ HoldsEntries(historyFile, goodWrites)
  /\ IsPostEcho(inbuf) =>
       /\ Answered(vSent, COAP_205_CONTENT,
                   STR_ECHO_PREFIX \o Truncated(Parsed(inbuf).payload))
       /\ lastIo.ret = 0 =>
            /\ Answered(pSent, COAP_205_CONTENT,
                        STR_ECHO_PREFIX \o Truncated(Parsed(inbuf).payload))
            /\ currentFile = Truncated(Parsed(inbuf).payload) \o <<LF>>
  /\ IsGetSensor(inbuf) /\ sincePut.valid =>
       /\ Answered(vSent, COAP_205_CONTENT, Truncated(sincePut.body))
       /\ sincePut.written /\ OneLine(sincePut.body) =>
            Answered(pSent, COAP_205_CONTENT, Truncated(sincePut.body))

\* After a PUT 'sensor' of 1024 bytes, a GET 'sensor' answered by both servers
\* with the first 1023 of them.
C18_Witness ==
  /\ IsGetSensor(inbuf)
  /\ sincePut.valid /\ sincePut.written /\ sincePut.body = Text(BODY_SIZE)
  /\ g_state = Text(BODY_SIZE - 1)
  /\ currentFile = Text(BODY_SIZE - 1) \o <<LF>>
  /\ Answered(vSent, COAP_205_CONTENT, Text(BODY_SIZE - 1))
  /\ Answered(pSent, COAP_205_CONTENT, Text(BODY_SIZE - 1))

-----------------------------------------------------------------------------
(* C12 *)

\* C12: a parsed request whose decoded Uri-Path is neither 'echo' nor 'sensor'
\* (the root, 'a/b', ...) is answered 4.04 NOT_FOUND by both servers, whatever
\* its method code, and is decoded alike by both.
C12_NotFound ==
  Accepted(inbuf) /\ Parsed(inbuf).uri_path \notin {STR_echo, STR_sensor} =>
    /\ coap_parse(inbuf).uri_path = Parsed(inbuf).uri_path
    /\ Answered(vSent, COAP_404_NOTFOUND, STR_NOT_FOUND)
    /\ Answered(pSent, COAP_404_NOTFOUND, STR_NOT_FOUND)

\* A PUT on 'a/b' after "5" was stored: answered 4.04 by both servers.
C12_Witness ==
  /\ Accepted(inbuf) /\ Parsed(inbuf).uri_path = <<97, 47, 98>>
  /\ Parsed(inbuf).code = COAP_PUT
  /\ g_state = Body_5
  /\ Answered(vSent, COAP_404_NOTFOUND, STR_NOT_FOUND)
  /\ Answered(pSent, COAP_404_NOTFOUND, STR_NOT_FOUND)

-----------------------------------------------------------------------------
(* C13 *)

\* C13: a GET 'sensor' is answered 2.05 and changes neither the stored value nor
\* the two files; a GET 'sensor' that follows a GET 'sensor' is answered with
\* the same code and the same body (so are any number of them in a row).
C13_GetIdempotent ==
  [][IsGetSensor(inbuf') =>
       /\ UNCHANGED <<g_state, currentFile, historyFile, goodWrites>>
       /\ Len(vSent') = 1 /\ MsgCode(vSent'[1]) = COAP_205_CONTENT
       /\ Len(pSent') = 1 /\ MsgCode(pSent'[1]) = COAP_205_CONTENT
       /\ IsGetSensor(inbuf) =>
            /\ MsgCode(vSent'[1]) = MsgCode(vSent[1])
            /\ MsgBody(vSent'[1]) = MsgBody(vSent[1])
            /\ MsgCode(pSent'[1]) = MsgCode(pSent[1])
            /\ MsgBody(pSent'[1]) = MsgBody(pSent[1])]_vars

\* A GET 'sensor' after the updates "5" and "7", answered "7" by both servers
\* with the value and the files as the last update left them.
C13_Witness ==
  /\ IsGetSensor(inbuf)
  /\ goodWrites = <<Body_5, Body_7>>
  /\ sincePut.valid /\ sincePut.written /\ sincePut.body = Body_7
  /\ g_state = Body_7 /\ currentFile = Body_7 \o <<LF>>
  /\ Answered(vSent, COAP_205_CONTENT, Body_7)
  /\ Answered(pSent, COAP_205_CONTENT, Body_7)

-----------------------------------------------------------------------------
(* C14 *)

\* The path of two segments: joined with '/', an empty segment left out.
JoinPath(p1, p2) ==
  IF p1 = <<>> THEN p2 ELSE IF p2 = <<>> THEN p1 ELSE p1 \o STR_SLASH \o p2

\* The request of a buildPost call is parsed by p as the call made it.
RecoveredBy(p, c) ==
  /\ p.ok
  /\ p.type = COAP_CON /\ p.code = COAP_POST
  /\ p.mid = c.msgId
  /\ p.tkl = 2 /\ p.token = <<c.msgId \div 256, c.msgId % 256>>
  /\ p.uri_path = JoinPath(c.path1, c.path2)
  /\ p.payload = c.json

\* C14 as stated: for every message id, every two segments and every payload,
\* the servers' parse of the datagram of buildPost recovers type Confirmable,
\* code POST, the message id, the token, the path and the payload.
C14_RoundTripAnySegments ==
  call.fn = "buildPost" =>
    /\ RecoveredBy(coap_parse(inbuf), call)
    /\ RecoveredBy(coap_parse_persist(inbuf), call)

\* C14 amended: the same for segments shorter than 13 bytes and a datagram of at
\* most 1500 bytes.
C14_RoundTripShortSegments ==
  call.fn = "buildPost"
    /\ Len(call.path1) < CLIENT_LEN_LIMIT /\ Len(call.path2) < CLIENT_LEN_LIMIT
    /\ Len(ClientDatagram(call)) <= BUF_SIZE =>
    /\ RecoveredBy(coap_parse(inbuf), call)
    /\ RecoveredBy(coap_parse_persist(inbuf), call)

\* A POST built with two segments of 12 bytes, message id 65535 and the payload
\* "{}": parsed as built and answered 4.04 with the token of the request.
C14_Witness ==
  /\ call.fn = "buildPost"
  /\ call.path1 = Text(CLIENT_LEN_LIMIT - 1) /\ call.path2 = Text(CLIENT_LEN_LIMIT - 1)
  /\ call.msgId = 65535 /\ call.json = <<123, 125>>
  /\ Len(coap_parse(inbuf).uri_path) = 2 * CLIENT_LEN_LIMIT - 1
  /\ RecoveredBy(coap_parse(inbuf), call)
  /\ Len(vSent) = 1 /\ MsgCode(vSent[1]) = COAP_404_NOTFOUND
  /\ MsgToken(vSent[1]) = <<255, 255>>


-----------------------------------------------------------------------------
(* C15 *)

\* The largest number the two extension bytes can hold.
OPT_MAX == 269 + 65535

\* The form a number takes in an option header: the nibble and how many
\* extension bytes follow.
NibbleOf(x) == IF x < 13 THEN x ELSE IF x < 269 THEN 13 ELSE 14

ExtBytesOf(x) == IF x < 13 THEN 0 ELSE IF x < 269 THEN 1 ELSE 2

\* The delta and the length that the parser's decoder reads back from the bytes
\* an add_option call wrote: the nibbles of the first byte, the delta extension,
\* then the length extension.
DecodedDelta(out) == read_nibble_ext(out[1] \div 16, out, 1)

DecodedLength(out) == read_ext(out[1] % 16, out, DecodedDelta(out).p)

\* C15: for every option delta and every value length in 0..65804, the bytes
\* written by add_option, read back by read_nibble_ext / read_ext, give the same
\* delta and the same length; 0..12 are written in the nibble, 13..268 with one
\* extension byte, 269 and above with two extension bytes, high byte first.
C15_NibbleRoundTrip ==
  (call.fn = "add_option" /\ call.number - call.last <= OPT_MAX
     /\ call.vlen <= OPT_MAX) =>
    LET delta == call.number - call.last
        d == DecodedDelta(call.out)
        l == DecodedLength(call.out)
    IN  /\ call.n = 1 + ExtBytesOf(delta) + ExtBytesOf(call.vlen) + call.vlen
        /\ Len(call.out) = call.n
        /\ call.out[1] \div 16 = NibbleOf(delta)
        /\ call.out[1] % 16 = NibbleOf(call.vlen)
        /\ d.val = delta
        /\ d.p = 1 + ExtBytesOf(delta)
        /\ l.val = call.vlen
        /\ l.p = d.p + ExtBytesOf(call.vlen)
        /\ (delta >= 269 => call.out[2] * 256 + call.out[3] = delta - 269)
        /\ SubSeq(call.out, l.p + 1, call.n) = Text(call.vlen)

\* An option with the largest delta and a length of 269 has been written: both
\* take two extension bytes.
C15_Witness ==
  /\ call.fn = "add_option"
  /\ call.number - call.last = OPT_MAX
  /\ call.vlen = 269
  /\ call.n = 5 + 269
  /\ DecodedDelta(call.out).val = OPT_MAX
  /\ DecodedLength(call.out).val = 269

-----------------------------------------------------------------------------
(* C16 *)

\* The fields of the first byte of a datagram.
VersionOf(buf) == (buf[1] \div 64) % 4

DeclaredTkl(buf) == buf[1] % 16

\* The header the design refuses: under 4 bytes, a version other than 1, a
\* token length above 8 or above the bytes that follow the 4-byte header.
HeaderRefused(buf) ==
  \/ Len(buf) < 4
  \/ VersionOf(buf) # 1
  \/ DeclaredTkl(buf) > 8
  \/ DeclaredTkl(buf) > Len(buf) - 4

\* C16: parse rejects every buffer shorter than 4 bytes, or whose version is not
\* 1, or whose token length is above 8 or above the bytes left after the header
\* (and the servers then answer nothing); for every other buffer the header is
\* accepted and exactly tokenLength bytes, those after the header, are the token.
C16_HeaderChecked ==
  LET h == parse_header(inbuf)
      v == coap_parse(inbuf)
      p == coap_parse_persist(inbuf)
  IN  IF HeaderRefused(inbuf)
      THEN /\ ~h.ok /\ ~v.ok /\ ~p.ok
           /\ vSent = <<>> /\ pSent = <<>>
           /\ ~vDispatched /\ ~pDispatched
      ELSE /\ h.ok
           /\ h.tkl = DeclaredTkl(inbuf)
           /\ Len(h.token) = h.tkl
           /\ h.token = SubSeq(inbuf, 5, 4 + DeclaredTkl(inbuf))
           /\ h.hi = 4 + h.tkl
           /\ (v.ok => v.tkl = h.tkl /\ v.token = h.token)
           /\ (p.ok => p.tkl = h.tkl /\ p.token = h.token)
           /\ (vSent # <<>> => MsgToken(vSent[1]) = h.token)
           /\ (pSent # <<>> => MsgToken(pSent[1]) = h.token)

\* A datagram of 12 bytes with a token of 8 bytes, which fills it, has been
\* accepted and answered with that token.
C16_Witness ==
  /\ Len(inbuf) = 12
  /\ DeclaredTkl(inbuf) = 8
  /\ ~HeaderRefused(inbuf)
  /\ coap_parse(inbuf).ok /\ coap_parse_persist(inbuf).ok
  /\ Len(vSent) = 1 /\ MsgToken(vSent[1]) = SubSeq(Token_15, 1, 8)
  /\ Len(pSent) = 1 /\ MsgToken(pSent[1]) = SubSeq(Token_15, 1, 8)

-----------------------------------------------------------------------------
(* C17 *)

\* How many extension bytes a nibble announces.
ExtBytesAnnounced(nibble) == IF nibble = 13 THEN 1 ELSE IF nibble = 14 THEN 2 ELSE 0

\* The number a nibble and its extension bytes, found from offset p, stand for.
Resolved(nibble, buf, p) ==
  IF nibble = 13 THEN 13 + buf[p + 1]
  ELSE IF nibble = 14 THEN 269 + buf[p + 1] * 256 + buf[p + 2]
  ELSE nibble

\* Some option from offset p on has a nibble of 15, or extension bytes that are
\* not all in the buffer, or a length above the bytes that remain.
RECURSIVE OptionsBroken(_, _)
OptionsBroken(buf, p) ==
  IF p >= Len(buf) \/ buf[p + 1] = PAYLOAD_MARKER THEN FALSE
  ELSE LET dn == buf[p + 1] \div 16
           ln == buf[p + 1] % 16
           q == p + 1 + ExtBytesAnnounced(dn) + ExtBytesAnnounced(ln)
       IN  \/ dn = 15
           \/ ln = 15
           \/ q > Len(buf)
           \/ q + Resolved(ln, buf, p + 1 + ExtBytesAnnounced(dn)) > Len(buf)
           \/ OptionsBroken(buf, q + Resolved(ln, buf, p + 1 + ExtBytesAnnounced(dn)))

\* C17: for every buffer, parse reads no byte at or beyond the end of the
\* buffer; an option with a delta or length nibble of 15, with missing extension
\* bytes, or with a length above the remaining bytes makes parse fail, and the
\* servers answer nothing.
C17_NoReadPastEnd ==
  /\ coap_parse(inbuf).hi <= Len(inbuf)
  /\ coap_parse_persist(inbuf).hi <= Len(inbuf)
  /\ ~HeaderRefused(inbuf) =>
       (OptionsBroken(inbuf, 4 + DeclaredTkl(inbuf)) <=>
          ~coap_parse(inbuf).ok /\ ~coap_parse_persist(inbuf).ok)
  /\ ~HeaderRefused(inbuf) /\ OptionsBroken(inbuf, 4 + DeclaredTkl(inbuf)) =>
       vSent = <<>> /\ pSent = <<>>

\* The request with the long options, cut after the first of the two extension
\* bytes of a delta, has been received and refused; the parser read up to the
\* option's first byte.
C17_Witness ==
  /\ inbuf = SubSeq(LongOptions, 1, 31)
  /\ inbuf[30] = 14 * 16 + 14
  /\ OptionsBroken(inbuf, 4 + DeclaredTkl(inbuf))
  /\ ~coap_parse(inbuf).ok /\ coap_parse(inbuf).hi = 30
  /\ ~coap_parse_persist(inbuf).ok
  /\ vSent = <<>> /\ pSent = <<>>

-----------------------------------------------------------------------------
(* C19 *)

\* The bytes a response takes: the header, the token, the Content-Format
\* option (2 bytes) and, when there is a payload, the marker and the payload.
ResponseSize(tkl, payload) ==
  4 + tkl + 2 + (IF Len(payload) > 0 THEN 1 + Len(payload) ELSE 0)

\* The datagram m is the whole response to the call c.
WholeResponse(m, c) ==
  /\ Len(m) = ResponseSize(c.tkl, c.payload)
  /\ MsgTkl(m) = c.tkl
  /\ MsgToken(m) = c.tok
  /\ MsgCode(m) = c.code
  /\ MsgId(m) = c.mid
  /\ MsgBody(m) = c.payload

\* C19: when the capacity is below what the header, the token, the option, the
\* marker and the payload take, build returns 0 and the servers send nothing;
\* what is sent is never a part of a response.
C19_NoPartialResponse ==
  /\ call.fn = "build_response" =>
       IF call.cap < ResponseSize(call.tkl, call.payload)
       THEN /\ vSent = <<>> /\ pSent = <<>>
            /\ build_response(call.cap, call.req_type, call.tkl, call.tok,
                              call.mid, call.code, call.payload) = <<>>
            /\ build_resp(call.cap, call.req_type, call.tkl, call.tok,
                          call.mid, call.code, call.payload) = <<>>
       ELSE /\ Len(vSent) = 1 /\ WholeResponse(vSent[1], call)
            /\ Len(pSent) = 1 /\ WholeResponse(pSent[1], call)
  /\ \A i \in 1..Len(vSent) : Len(vSent[i]) > 0
  /\ \A i \in 1..Len(pSent) : Len(pSent[i]) > 0

\* A response with a token of 8 bytes and the text NOT_FOUND was built in a
\* buffer one byte too small for it: nothing was sent.
C19_Witness ==
  /\ call.fn = "build_response"
  /\ call.tkl = 8 /\ call.payload = STR_NOT_FOUND
  /\ call.cap = ResponseSize(call.tkl, call.payload) - 1
  /\ call.cap >= 4 + call.tkl + 2
  /\ vSent = <<>> /\ pSent = <<>>

-----------------------------------------------------------------------------
(* C20 *)

\* C20, what holds of it: a request is served in one step, so that no two
\* overlap; the stop flag stays set; with the flag set the iteration that is
\* under way is the last one, and it answers the datagram it received; nothing
\* is done once the loop has been left.
C20_LoopLeftAfterIteration ==
  [][/\ (stop_flag => stop_flag')
     /\ (pc = "done" => UNCHANGED vars)
     /\ (stop_flag' /\ inbuf' # inbuf => pc' = "done")
     /\ (stop_flag' /\ IsGetSensor(inbuf') /\ inbuf' # inbuf =>
           Len(vSent') = 1 /\ Len(pSent') = 1)]_vars

\* C20: requests never overlap; once the stop signal has set the stop flag, the
\* request in flight completes, no new iteration is started after the current
\* one and the server then terminates: with the flag set the server is not left
\* waiting in recvfrom, it has left the loop or is on its way to the loop test.
C20_StopTerminates == stop_flag => pc # "recv"

\* The same as a property of the behaviours: once the flag is set the loop is
\* left.
C20_StopLeadsToDone == stop_flag ~> (pc = "done")

-----------------------------------------------------------------------------
(* C21 *)

\* The path of a request is what fits uri_path[128] of the segments joined
\* with '/': at most 127 bytes.
C21_PersistPathWithinBuffer ==
  /\ ~coap_parse_persist(inbuf).overrun
  /\ coap_parse_persist(inbuf).ok =>
       Len(coap_parse_persist(inbuf).uri_path) <= URI_PATH_SIZE - 1

\* C21: in both servers, for every datagram of up to 1500 bytes with any number
\* of Uri-Path options of any lengths, parse writes nothing outside
\* uri_path[128]: the joined path with its terminator stays within 128 bytes.
C21_PathWithinBuffer ==
  /\ ~coap_parse(inbuf).overrun
  /\ ~coap_parse_persist(inbuf).overrun
  /\ ~vAborted
  /\ coap_parse(inbuf).ok =>
       Len(coap_parse(inbuf).uri_path) <= URI_PATH_SIZE - 1
  /\ coap_parse_persist(inbuf).ok =>
       Len(coap_parse_persist(inbuf).uri_path) <= URI_PATH_SIZE - 1

-----------------------------------------------------------------------------
(* C22 *)

\* The datagram m answers the request req: same message id and token.
AnswerTo(m, req) ==
  /\ Len(m) <= BUF_SIZE
  /\ MsgId(m) = req.mid
  /\ MsgToken(m) = req.token
  /\ Len(MsgBody(m)) <= RESP_SIZE - 1

\* C22: every successfully parsed Confirmable or Non-confirmable datagram is
\* answered with exactly one response datagram before the next receive: the
\* dispatch always gives a code and a body and the response always fits the
\* output buffer.  (A parse that ended the process of server.c did not succeed.)
C22_ExactlyOneResponse ==
  LET v == coap_parse(inbuf)
      p == coap_parse_persist(inbuf)
  IN  /\ Len(vSent) <= 1 /\ Len(pSent) <= 1
      /\ (Len(inbuf) > 0 /\ v.ok /\ v.type \in {COAP_CON, COAP_NON} /\ ~vAborted) =>
            vDispatched /\ Len(vSent) = 1 /\ AnswerTo(vSent[1], v)
      /\ (Len(inbuf) > 0 /\ p.ok /\ p.type \in {COAP_CON, COAP_NON}) =>
            pDispatched /\ Len(pSent) = 1 /\ AnswerTo(pSent[1], p)

\* A Non-confirmable POST 'echo' with a token of 8 bytes and a body of 1023
\* bytes has been answered by both servers with the longest response.
C22_Witness ==
  /\ coap_parse(inbuf).ok
  /\ coap_parse(inbuf).type = COAP_NON
  /\ coap_parse(inbuf).tkl = 8
  /\ coap_parse(inbuf).code = COAP_POST
  /\ Len(coap_parse(inbuf).payload) = BODY_SIZE - 1
  /\ Len(vSent) = 1
  /\ Len(vSent[1]) = 4 + 8 + 2 + 1 + Len(STR_ECHO_PREFIX) + BODY_SIZE - 1
  /\ Len(pSent) = 1
  /\ Len(pSent[1]) = Len(vSent[1])

-----------------------------------------------------------------------------
(* C23 *)

\* The request server.c dispatched in the iteration that ends in this state.
VolatileRequest == VolatileParsedTable[inbuf]

\* The request server_persist_clean.c dispatched in that iteration.
PersistRequest == Parsed(inbuf)

\* The one response of the iteration carries the code c.
AnsweredCode(sent, c) == Len(sent) = 1 /\ MsgCode(sent[1]) = c

=============================================================================
